---------------------------- MODULE Spec2Model ----------------------------
(***************************************************************************)
(* A model of czcorpus/scollector's storage package: the binary key/value  *)
(* schema (encoding.go), the bulk and incremental write paths (write.go)   *)
(* and the read path with the collocation query (read.go), on top of an    *)
(* ordered transactional key-value store (badger).                         *)
(*                                                                         *)
(* Keys, values and lemmas are sequences of bytes (0..255).  The store is  *)
(* a function from keys to values.                                         *)
(*                                                                         *)
(* TLC's integers are the 32-bit two's complement integers.  A uint32 is   *)
(* held as the integer with the same 32 bits: x itself below 2^31, and     *)
(* x - 2^32 from 2^31 on (4294967295 is held as -1).  Add32 and ULess are  *)
(* the unsigned sum and order on that representation.  A Go int of the     *)
(* inputs is confined to the same 32 bits.                                 *)
(***************************************************************************)
EXTENDS Integers, Sequences, FiniteSets, TLC

VARIABLES
    db,        \* the committed content of the badger store: key -> value
    tidSeq,    \* the tokenIDSequence in use: [value, cache]
    sd,        \* the position of the running StoreData call
    last,      \* the outcome of the last call that returned
    nOps,      \* number of write calls issued so far
    firstID,   \* history: lemma -> identifier first persisted since the last Flush
    txns,      \* per client: the open Update transaction of an Increment call
    commitTs,  \* key -> timestamp of the last commit that wrote it
    clock,     \* the store's commit timestamp
    okSum,     \* history: key -> sum of the increments of the calls that returned nil
    inp,       \* the input of a codec application
    written    \* history: the (left, right) identifier pairs written as pair entries

vars == <<db, tidSeq, sd, last, nOps, firstID, txns, commitTs, clock, okSum, inp, written>>

-----------------------------------------------------------------------------
(* Fixed-width integers and byte strings *)

MaxUint32 == 0 - 1

\* a + b in uint32 arithmetic (wrapping at 2^32), added in 16-bit halves so
\* that no intermediate value leaves the checker's integer range
Add32(a, b) ==
    LET lo == (a % 65536) + (b % 65536)
        hi == (a \div 65536) + (b \div 65536) + (lo \div 65536)
    IN  (((hi + 32768) % 65536) - 32768) * 65536 + (lo % 65536)

\* a < b as unsigned 32-bit numbers
ULess(a, b) == IF (a >= 0) = (b >= 0) THEN a < b ELSE a >= 0

\* the unsigned sum a + b does not fit in 32 bits
Carry32(a, b) == ULess(Add32(a, b), a)

\* uint32(x) of a Go int: its low 32 bits
ToUint32(x) == x

\* uint16(x) of a Go int: its low 16 bits
ToUint16(x) == x % 65536

\* binary.LittleEndian.PutUint32
PutUint32(n) ==
    <<n % 256, (n \div 256) % 256, (n \div 65536) % 256, (n \div 16777216) % 256>>

\* binary.LittleEndian.PutUint16
PutUint16(n) == <<n % 256, (n \div 256) % 256>>

\* binary.LittleEndian.Uint32 of the first four bytes (the caller checks the length)
Uint32(b) ==
    b[1] + 256 * b[2] + 65536 * b[3] + 16777216 * (IF b[4] >= 128 THEN b[4] - 256 ELSE b[4])

\* binary.LittleEndian.Uint16 of the first two bytes
Uint16(b) == b[1] + 256 * b[2]

HasPrefix(k, p) == Len(k) >= Len(p) /\ SubSeq(k, 1, Len(p)) = p

\* bytes.Compare(s, t) < 0: the order in which badger keeps and iterates keys
BytesLess(s, t) ==
    \E i \in 1..(Len(t)) :
        /\ \A j \in 1..(i - 1) : j <= Len(s) /\ s[j] = t[j]
        /\ (i > Len(s) \/ s[i] < t[i])

Contains(s, c) == \E i \in 1..Len(s) : s[i] = c

IsSpace(c) == c \in {9, 10, 11, 12, 13, 32}

RECURSIVE TrimLeft(_)
TrimLeft(s) ==
    IF s # <<>> /\ IsSpace(Head(s)) THEN TrimLeft(Tail(s)) ELSE s

RECURSIVE TrimRight(_)
TrimRight(s) ==
    IF s # <<>> /\ IsSpace(s[Len(s)]) THEN TrimRight(SubSeq(s, 1, Len(s) - 1)) ELSE s

\* strings.TrimSpace
TrimSpace(s) == TrimRight(TrimLeft(s))

-----------------------------------------------------------------------------
(* encoding.go *)

LemmaToIDPrefix == 0
SingleTokenPrefix == 1
PairTokenPrefix == 2
IDToLemmaPrefix == 3
PoSLemmaToIDPrefix == 4

\* a lemma holding a space is keyed under the PoS tag
encodeLemmaKey(lemma) ==
    IF ~Contains(lemma, 32)
        THEN <<LemmaToIDPrefix>> \o lemma
        ELSE <<PoSLemmaToIDPrefix>> \o lemma

decodeFrequency(data) == Uint32(data)

\* data[:4] and data[4:] of a shorter value are out of range: the read panics
decodeFrequencyAndDistPanics(data) == Len(data) < 6

decodeFrequencyAndDist(data) ==
    <<Uint32(SubSeq(data, 1, 4)), Uint16(SubSeq(data, 5, Len(data)))>>

mutualPositionToInt(v) == 32768 - v

mutualPositionToUint16Panics(v) == v > 16384

mutualPositionToUint16(v) == ToUint16(32768 + v)

encodeFrequency(freq) == PutUint32(freq)

encodeFrequencyAndDist(freq, dist) == PutUint32(freq) \o PutUint16(dist)

encodePairTokenKeySwapped(token1ID, token2ID) ==
    <<PairTokenPrefix>> \o PutUint32(token2ID) \o PutUint32(token1ID)

encodePairTokenKey(token1ID, token2ID) ==
    <<PairTokenPrefix>> \o PutUint32(token1ID) \o PutUint32(token2ID)

encodeSingleTokenKey(tokenID) == <<SingleTokenPrefix>> \o PutUint32(tokenID)

encodeTokenID(tokenID) == PutUint32(tokenID)

encodeIDToLemmaKey(tokenID) == <<IDToLemmaPrefix>> \o PutUint32(tokenID)

-----------------------------------------------------------------------------
(* The store: committed content, transactions, prefix iteration *)

EmptyDB == [k \in {} |-> <<>>]

Has(d, k) == k \in DOMAIN d

\* txn.Set: the write is buffered in the transaction
Set(w, k, v) == [x \in (DOMAIN w) \cup {k} |-> IF x = k THEN v ELSE w[x]]

\* txn.Commit of an Update: all buffered writes become visible together
Commit(d, w) == [x \in (DOMAIN d) \cup (DOMAIN w) |-> IF x \in DOMAIN w THEN w[x] ELSE d[x]]

RECURSIVE SortKeys(_)
SortKeys(S) ==
    IF S = {} THEN <<>>
    ELSE LET m == CHOOSE x \in S : \A y \in S \ {x} : BytesLess(x, y)
         IN <<m>> \o SortKeys(S \ {m})

\* an iterator with opts.Prefix: Rewind, Valid, Next visit the keys that start
\* with the prefix, in ascending byte order
PrefixScan(d, prefix) == SortKeys({k \in DOMAIN d : HasPrefix(k, prefix)})

-----------------------------------------------------------------------------
(* write.go: the token identifier registry *)

NewTokenIDSequence == [value |-> 0, cache |-> [l \in {} |-> 0]]

nextPanics(tseq) == Add32(tseq.value, 1) = 0

\* the registry after next(lemma); the identifier returned is its value
next(tseq, lemma) ==
    [value |-> Add32(tseq.value, 1),
     cache |-> Set(tseq.cache, lemma, Add32(tseq.value, 1))]

\* zero means not found
recall(tseq, lemma) ==
    IF lemma \in DOMAIN tseq.cache THEN tseq.cache[lemma] ELSE 0

(* write.go: the writes of one transaction; w is the transaction's buffer *)

StoreSingleTokenFreqTx(w, tokenID, frequency) ==
    Set(w, encodeSingleTokenKey(tokenID), encodeFrequency(frequency))

StorePairTokenFreqTx(w, token1ID, token2ID, frequency) ==
    Set(w, encodePairTokenKey(token1ID, token2ID), encodeFrequency(frequency))

StoreLemmaTxForwardOnly(w, lemma, tokenID) ==
    Set(w, encodeLemmaKey(lemma), encodeTokenID(tokenID))

StoreLemmaTx(w, lemma, tokenID) ==
    Set(Set(w, encodeLemmaKey(lemma), encodeTokenID(tokenID)),
        encodeIDToLemmaKey(tokenID), lemma)

-----------------------------------------------------------------------------
(* read.go: point reads; d is the snapshot the transaction reads *)

GetLemmaID(d, lemma) ==
    IF Has(d, encodeLemmaKey(lemma))
        THEN [tokenID |-> Uint32(d[encodeLemmaKey(lemma)]), err |-> "nil"]
        ELSE [tokenID |-> 0, err |-> "ErrKeyNotFound"]

\* appends "_" to a query without one, then scans the forward keys it prefixes
GetLemmaIDsByPrefix(d, lemmaPrefix) ==
    LET q    == IF Contains(lemmaPrefix, 95) THEN lemmaPrefix ELSE lemmaPrefix \o <<95>>
        keys == PrefixScan(d, encodeLemmaKey(q))
    IN [i \in 1..Len(keys) |->
            [Value   |-> TrimSpace(Tail(keys[i])),
             TokenID |-> Uint32(d[keys[i]])]]

getLemmaByIDTxn(d, tokenID) ==
    IF Has(d, encodeIDToLemmaKey(tokenID))
        THEN [lemma |-> TrimSpace(d[encodeIDToLemmaKey(tokenID)]), err |-> "nil"]
        ELSE [lemma |-> <<>>, err |-> "ErrKeyNotFound"]

getSingleTokenFreqCopy(d, tokenID) ==
    LET key == encodeSingleTokenKey(tokenID)
    IN IF ~Has(d, key) THEN [freq |-> 0, err |-> "ErrKeyNotFound"]
       ELSE IF Len(d[key]) # 4 THEN [freq |-> 0, err |-> "invalid frequency data length"]
       ELSE [freq |-> Uint32(d[key]), err |-> "nil"]

\* the frequency is left at the caller's zero when the read fails
getSingleTokenFreqTx(d, tokenID) ==
    LET key == encodeSingleTokenKey(tokenID)
    IN IF ~Has(d, key) THEN [freq |-> 0, err |-> "ErrKeyNotFound"]
       ELSE IF Len(d[key]) # 4 THEN [freq |-> 0, err |-> "invalid frequency data length"]
       ELSE [freq |-> Uint32(d[key]), err |-> "nil"]

getSingleTokenFreq(d, tokenID) == getSingleTokenFreqTx(d, tokenID)

-----------------------------------------------------------------------------
(* write.go: the body of the Update transaction of an increment.  It reads  *)
(* the snapshot d and returns its error and the writes it buffered.         *)

\* the sum written without the counter that was read
IncrementNewFreqLost(currentFreq, increment) == increment

\* newFreq := currentFreq + increment
IncrementNewFreq(currentFreq, increment) == Add32(currentFreq, increment)

IncrementSingleTokenFreqTx(d, tokenID, increment) ==
    LET cur == getSingleTokenFreqTx(d, tokenID)
    IN IF cur.err \notin {"nil", "ErrKeyNotFound"}
           THEN [err |-> cur.err, writes |-> EmptyDB]
           ELSE [err |-> "nil",
                 writes |-> Set(EmptyDB, encodeSingleTokenKey(tokenID),
                                encodeFrequency(IncrementNewFreq(cur.freq, increment)))]

IncrementPairTokenFreqTx(d, token1ID, token2ID, increment) ==
    LET key == encodePairTokenKey(token1ID, token2ID)
        currentFreq == IF Has(d, key) THEN decodeFrequency(d[key]) ELSE 0
    IN [err |-> "nil",
        writes |-> Set(EmptyDB, key, encodeFrequency(IncrementNewFreq(currentFreq, increment)))]

-----------------------------------------------------------------------------
(* read.go: CalculateMeasures.  A float64 measure is kept exactly: "nan",   *)
(* "neginf", "posinf", or "fin" with the integers that determine it (exact  *)
(* while the frequencies and their products stay below 2^31).               *)

\* 14.0 + math.Log2(float64(2*pairFreq)/float64(targetFreq+secondFreq)); the
\* product and the sum are computed in uint32
LogDiceOf(pairFreq, targetFreq, secondFreq) ==
    LET num == Add32(pairFreq, pairFreq)
        den == Add32(targetFreq, secondFreq)
    IN IF den = 0 /\ num = 0 THEN [kind |-> "nan", num |-> 0, den |-> 1]
       ELSE IF den = 0 THEN [kind |-> "posinf", num |-> 0, den |-> 1]
       ELSE IF num = 0 THEN [kind |-> "neginf", num |-> 0, den |-> 1]
       ELSE [kind |-> "fin", num |-> num, den |-> den]

\* (float64(pairFreq) - float64(targetFreq)*float64(secondFreq)/float64(corpusSize))
\*   / math.Sqrt(float64(pairFreq)); a finite value is num / (corpusSize * sqrt(den))
TScoreOf(pairFreq, targetFreq, secondFreq, corpusSize) ==
    LET prod == targetFreq * secondFreq
    IN IF corpusSize = 0 /\ prod = 0 THEN [kind |-> "nan", num |-> 0, den |-> 1]
       ELSE IF corpusSize = 0 THEN [kind |-> "neginf", num |-> 0, den |-> 1]
       ELSE IF pairFreq = 0 /\ prod = 0 THEN [kind |-> "nan", num |-> 0, den |-> 1]
       ELSE IF pairFreq = 0 THEN [kind |-> "neginf", num |-> 0, den |-> 1]
       ELSE [kind |-> "fin", num |-> pairFreq * corpusSize - prod, den |-> pairFreq]

\* a.LogDice > b.LogDice
LogDiceGreater(a, b) ==
    CASE a.kind = "nan" \/ b.kind = "nan" -> FALSE
      [] a.kind = "posinf" -> b.kind # "posinf"
      [] a.kind = "neginf" -> FALSE
      [] b.kind = "posinf" -> FALSE
      [] b.kind = "neginf" -> TRUE
      [] OTHER -> a.num * b.den > b.num * a.den

\* a.TScore > b.TScore, for two scores of the same corpus size
TScoreGreater(a, b) ==
    CASE a.kind = "nan" \/ b.kind = "nan" -> FALSE
      [] a.kind = "neginf" -> FALSE
      [] b.kind = "neginf" -> TRUE
      [] a.num > 0 /\ b.num <= 0 -> TRUE
      [] a.num <= 0 /\ b.num > 0 -> FALSE
      [] a.num > 0 -> a.num * a.num * b.den > b.num * b.num * a.den
      [] OTHER -> a.num * a.num * b.den < b.num * b.num * a.den

sortByLogDice == "ldice"
sortByTScore == "tscore"

Validate(m) == m \in {sortByLogDice, sortByTScore}

Before(a, b, sortBy) ==
    IF sortBy = sortByTScore THEN TScoreGreater(a.TScore, b.TScore)
    ELSE LogDiceGreater(a.LogDice, b.LogDice)

\* sort.Slice with the descending comparator (an order among ties is picked)
RECURSIVE SortSlice(_, _)
SortSlice(results, sortBy) ==
    IF results = <<>> THEN <<>>
    ELSE LET tops == {i \in 1..Len(results) :
                        \A j \in 1..Len(results) : ~Before(results[j], results[i], sortBy)}
             i == IF tops = {} THEN 1 ELSE CHOOSE x \in tops : \A y \in tops : x <= y
         IN <<results[i]>> \o
            SortSlice(SubSeq(results, 1, i - 1) \o SubSeq(results, i + 1, Len(results)), sortBy)

\* the scan of one variant's pairs: keys is what is left of the iteration.
\* Yields [panic, results].
RECURSIVE ScanPairs(_, _, _, _, _, _)
ScanPairs(d, keys, lemmaMatch, targetFreq, corpusSize, results) ==
    IF keys = <<>> THEN [panic |-> FALSE, results |-> results]
    ELSE
      LET key == Head(keys)
          secondLemmaID == Uint32(SubSeq(key, 6, 9))
          val == d[key]
      IN IF decodeFrequencyAndDistPanics(val) THEN [panic |-> TRUE, results |-> results]
         ELSE
           LET fd == decodeFrequencyAndDist(val)
               second == getSingleTokenFreqCopy(d, secondLemmaID)
               secondLemma == getLemmaByIDTxn(d, secondLemmaID)
           IN IF second.err # "nil" \/ secondLemma.err # "nil"
                THEN ScanPairs(d, Tail(keys), lemmaMatch, targetFreq, corpusSize, results)
                ELSE ScanPairs(d, Tail(keys), lemmaMatch, targetFreq, corpusSize,
                       Append(results,
                         [RawLemma     |-> lemmaMatch.Value,
                          RawCollocate |-> secondLemma.lemma,
                          LogDice      |-> LogDiceOf(fd[1], targetFreq, second.freq),
                          TScore       |-> TScoreOf(fd[1], targetFreq, second.freq, corpusSize),
                          MutualDist   |-> mutualPositionToInt(fd[2]),
                          pairFreq     |-> fd[1]]))

PairPrefix(tokenID) == <<PairTokenPrefix>> \o PutUint32(tokenID)

\* the loop over the variants.  Yields [kind, results]: kind is "ok", "error"
\* (the target frequency is missing) or "panic"
RECURSIVE ScanVariants(_, _, _, _)
ScanVariants(d, variants, corpusSize, results) ==
    IF variants = <<>> THEN [kind |-> "ok", results |-> results]
    ELSE
      LET lemmaMatch == Head(variants)
          target == getSingleTokenFreq(d, lemmaMatch.TokenID)
      IN IF target.err # "nil" THEN [kind |-> "error", results |-> <<>>]
         ELSE
           LET scan == ScanPairs(d, PrefixScan(d, PairPrefix(lemmaMatch.TokenID)),
                                 lemmaMatch, target.freq, corpusSize, results)
           IN IF scan.panic THEN [kind |-> "panic", results |-> <<>>]
              ELSE ScanVariants(d, Tail(variants), corpusSize, scan.results)

CalculateMeasures(d, lemma, corpusSize, limit, sortBy) ==
    IF limit < 0 \/ corpusSize < 0 \/ ~Validate(sortBy)
      THEN [kind |-> "panic", results |-> <<>>]
      ELSE
        LET all == ScanVariants(d, GetLemmaIDsByPrefix(d, lemma), corpusSize, <<>>)
            sorted == SortSlice(all.results, sortBy)
        IN IF all.kind # "ok" THEN all
           ELSE [kind |-> "ok",
                 results |-> IF Len(sorted) > limit THEN SubSeq(sorted, 1, limit) ELSE sorted]

-----------------------------------------------------------------------------
(* Inputs *)

MaxOps == 2        \* write calls (StoreData, Increment...) per behaviour

LemAX == <<97, 95, 120>>    \* "a_x"
LemB == <<98>>              \* "b"
LemC == <<99>>              \* "c"

Lemmas == {LemAX, LemB}

SingleFreqVals == {2}

PairFreqVals == {1, 2}

MinPairFreqs == {2}

PairUniverse == {<<LemAX, LemB>>, <<LemAX, LemC>>}

SingleFreqTables == UNION {[S -> SingleFreqVals] : S \in (SUBSET Lemmas) \ {{}}}

PairFreqTables == UNION {[P -> PairFreqVals] : P \in SUBSET PairUniverse}

IncTokenIDs == {2, 7}

IncPairIDs == {<<1, 2>>, <<1, 7>>}

IncVals == {0, 1}

QueryLemmas == {<<97>>}      \* "a"

CorpusSizes == {1000}

Limits == {0, 2}

-----------------------------------------------------------------------------
(* The sequential client: StoreData, the increments, Flush and the reads *)

NoMap == [k \in {} |-> 0]

Idle == [pc |-> "idle", todo |-> {}, singleFreqs |-> NoMap, pairFreqs |-> NoMap,
         minPairFreq |-> 0, clean |-> FALSE]

None == [op |-> "none", arg |-> <<>>, ret |-> <<>>]

NoTxns == <<>>

Init ==
    /\ db = EmptyDB
    /\ tidSeq = NewTokenIDSequence
    /\ sd = Idle
    /\ last = None
    /\ nOps = 0
    /\ firstID = NoMap
    /\ txns = NoTxns
    /\ commitTs = NoMap
    /\ clock = 0
    /\ okSum = NoMap
    /\ inp = <<>>
    /\ written = {}

\* ghost: the forward entries a commit adds to firstID (the first identifier
\* persisted for each lemma)
Remember(f, lemma, tokenID) == IF lemma \in DOMAIN f THEN f ELSE Set(f, lemma, tokenID)

\* where StoreData stands after a loop body: in the same loop, at the start of
\* the next non-empty loop, or at its return
After(pc, todo, sf, pf) ==
    IF todo # {} THEN <<pc, todo>>
    ELSE IF pc = "lemmas" /\ DOMAIN sf # {} THEN <<"singles", DOMAIN sf>>
    ELSE IF pc \in {"lemmas", "singles"} /\ DOMAIN pf # {} THEN <<"pairs", DOMAIN pf>>
    ELSE <<"idle", {}>>

StoreDataArg(c) ==
    [singleFreqs |-> c.singleFreqs, pairFreqs |-> c.pairFreqs,
     minPairFreq |-> c.minPairFreq, clean |-> c.clean]

\* the call's position moves to pos; at the end StoreData returns nil
StoreDataMove(pos) ==
    IF pos[1] = "idle"
        THEN /\ sd' = Idle
             /\ last' = [op |-> "StoreData", arg |-> StoreDataArg(sd), ret |-> [err |-> "nil"]]
        ELSE /\ sd' = [sd EXCEPT !.pc = pos[1], !.todo = pos[2]]
             /\ last' = None

\* StoreData is called: with a fresh registry or with the one of the call before
StoreDataCall(fresh, sf, pf, min) ==
    /\ sd.pc = "idle"
    /\ nOps < MaxOps
    /\ nOps' = nOps + 1
    /\ tidSeq' = IF fresh THEN NewTokenIDSequence ELSE tidSeq
    /\ LET pos == After("lemmas", DOMAIN sf, sf, pf)
       IN sd' = [pc |-> pos[1], todo |-> pos[2], singleFreqs |-> sf, pairFreqs |-> pf,
                 minPairFreq |-> min,
                 clean |-> (db = EmptyDB /\ (fresh \/ tidSeq = NewTokenIDSequence))]
    /\ last' = None
    /\ UNCHANGED <<db, firstID, txns, commitTs, clock, okSum, inp, written>>

\* one pass of the first loop: the Update that stores a lemma's two entries
StoreDataLemma ==
    /\ sd.pc = "lemmas"
    /\ \E lemma \in sd.todo :
         IF nextPanics(tidSeq)
           THEN /\ sd' = Idle
                /\ last' = [op |-> "StoreData", arg |-> StoreDataArg(sd), ret |-> [err |-> "panic"]]
                /\ UNCHANGED <<db, tidSeq, firstID>>
           ELSE /\ tidSeq' = next(tidSeq, lemma)
                /\ db' = Commit(db, StoreLemmaTx(EmptyDB, lemma, tidSeq'.value))
                /\ firstID' = Remember(firstID, lemma, tidSeq'.value)
                /\ StoreDataMove(After("lemmas", sd.todo \ {lemma}, sd.singleFreqs, sd.pairFreqs))
    /\ UNCHANGED <<nOps, txns, commitTs, clock, okSum, inp, written>>

\* one pass of the second loop
StoreDataSingle ==
    /\ sd.pc = "singles"
    /\ \E lemma \in sd.todo :
         /\ db' = Commit(db, StoreSingleTokenFreqTx(EmptyDB, recall(tidSeq, lemma),
                                                    ToUint32(sd.singleFreqs[lemma])))
         /\ StoreDataMove(After("singles", sd.todo \ {lemma}, sd.singleFreqs, sd.pairFreqs))
    /\ UNCHANGED <<tidSeq, nOps, firstID, txns, commitTs, clock, okSum, inp, written>>

\* one pass of the third loop: a pair below the minimum is passed over
StoreDataPair ==
    /\ sd.pc = "pairs"
    /\ \E lemmaPair \in sd.todo :
         /\ db' = IF sd.pairFreqs[lemmaPair] < sd.minPairFreq THEN db
                  ELSE Commit(db, StorePairTokenFreqTx(EmptyDB,
                                     recall(tidSeq, lemmaPair[1]),
                                     recall(tidSeq, lemmaPair[2]),
                                     ToUint32(sd.pairFreqs[lemmaPair])))
         /\ StoreDataMove(After("pairs", sd.todo \ {lemmaPair}, sd.singleFreqs, sd.pairFreqs))
    /\ UNCHANGED <<tidSeq, nOps, firstID, txns, commitTs, clock, okSum, inp, written>>

\* an Update of the running call fails (or the process dies): nothing of the
\* transaction is committed and StoreData returns the error, on which the
\* client stops.  In the first loop next() has already advanced the registry.
StoreDataFail ==
    /\ sd.pc # "idle"
    /\ \E x \in sd.todo :
         tidSeq' = IF sd.pc = "lemmas" /\ ~nextPanics(tidSeq) THEN next(tidSeq, x) ELSE tidSeq
    /\ sd' = [Idle EXCEPT !.pc = "failed"]
    /\ last' = [op |-> "StoreData", arg |-> StoreDataArg(sd), ret |-> [err |-> "failed"]]
    /\ UNCHANGED <<db, nOps, firstID, txns, commitTs, clock, okSum, inp, written>>

IncrementSingleTokenFreq(tokenID, increment) ==
    /\ sd.pc = "idle"
    /\ nOps < MaxOps
    /\ nOps' = nOps + 1
    /\ LET r == IncrementSingleTokenFreqTx(db, tokenID, increment)
       IN /\ db' = IF r.err = "nil" THEN Commit(db, r.writes) ELSE db
          /\ last' = [op |-> "IncrementSingleTokenFreq", arg |-> <<tokenID, increment>>,
                      ret |-> [err |-> r.err]]
    /\ UNCHANGED <<tidSeq, sd, firstID, txns, commitTs, clock, okSum, inp, written>>

IncrementPairTokenFreq(token1ID, token2ID, increment) ==
    /\ sd.pc = "idle"
    /\ nOps < MaxOps
    /\ nOps' = nOps + 1
    /\ LET r == IncrementPairTokenFreqTx(db, token1ID, token2ID, increment)
       IN /\ db' = IF r.err = "nil" THEN Commit(db, r.writes) ELSE db
          /\ last' = [op |-> "IncrementPairTokenFreq", arg |-> <<token1ID, token2ID, increment>>,
                      ret |-> [err |-> r.err]]
    /\ UNCHANGED <<tidSeq, sd, firstID, txns, commitTs, clock, okSum, inp, written>>

\* DropAll
Flush ==
    /\ sd.pc = "idle"
    /\ db # EmptyDB
    /\ db' = EmptyDB
    /\ firstID' = NoMap
    /\ last' = None
    /\ UNCHANGED <<tidSeq, sd, nOps, txns, commitTs, clock, okSum, inp, written>>

GetLemmaIDCall(lemma) ==
    /\ sd.pc = "idle"
    /\ last' = [op |-> "GetLemmaID", arg |-> lemma, ret |-> GetLemmaID(db, lemma)]
    /\ UNCHANGED <<db, tidSeq, sd, nOps, firstID, txns, commitTs, clock, okSum, inp, written>>

CalculateMeasuresCall(lemma, corpusSize, limit, sortBy) ==
    /\ sd.pc = "idle"
    /\ last' = [op |-> "CalculateMeasures",
                arg |-> [lemma |-> lemma, corpusSize |-> corpusSize, limit |-> limit,
                         sortBy |-> sortBy],
                ret |-> CalculateMeasures(db, lemma, corpusSize, limit, sortBy)]
    /\ UNCHANGED <<db, tidSeq, sd, nOps, firstID, txns, commitTs, clock, okSum, inp, written>>

Next ==
    \/ \E fresh \in BOOLEAN, sf \in SingleFreqTables, pf \in PairFreqTables, min \in MinPairFreqs :
          StoreDataCall(fresh, sf, pf, min)
    \/ StoreDataLemma
    \/ StoreDataSingle
    \/ StoreDataPair
    \/ StoreDataFail
    \/ \E t \in IncTokenIDs, i \in IncVals : IncrementSingleTokenFreq(t, i)
    \/ \E p \in IncPairIDs, i \in IncVals : IncrementPairTokenFreq(p[1], p[2], i)
    \/ Flush
    \/ \E l \in {LemAX, LemC} : GetLemmaIDCall(l)
    \/ \E l \in QueryLemmas, n \in CorpusSizes, k \in Limits, m \in {sortByLogDice, sortByTScore} :
          CalculateMeasuresCall(l, n, k, m)

Spec == Init /\ [][Next]_vars

-----------------------------------------------------------------------------
(* Concurrent increments.  Each client runs db.bdb.Update: the transaction  *)
(* reads the snapshot of its start, buffers its write, and commits.  The    *)
(* store refuses the commit (ErrConflict) when a key the transaction read   *)
(* was committed after its start; Update returns that error, not retrying.  *)

MaxCalls == 3      \* Increment calls per behaviour

Clients == {1, 2}

CounterSingle == <<1>>

CounterPair == <<1, 2>>

SingleCounterKey == encodeSingleTokenKey(CounterSingle[1])

PairCounterKey == encodePairTokenKey(CounterPair[1], CounterPair[2])

CounterKeys == {SingleCounterKey, PairCounterKey}

Increments == {1, 2, MaxUint32}

InitialFreqs == {5}

Closed == [pc |-> "idle", op |-> "none", arg |-> <<>>, readTs |-> 0, reads |-> {},
           err |-> "nil", writes |-> EmptyDB, key |-> <<>>, increment |-> 0]

\* ghost: the running sum of a counter: low is its low 32 bits, carry the
\* number of times it passed 2^32, n the number of increments added
SumOf(v) == [carry |-> 0, low |-> v, n |-> 0]

SumAdd(sum, increment) ==
    [carry |-> sum.carry + (IF Carry32(sum.low, increment) THEN 1 ELSE 0),
     low   |-> Add32(sum.low, increment),
     n     |-> sum.n + 1]

InitInc ==
    /\ \/ db = EmptyDB /\ okSum = [k \in CounterKeys |-> SumOf(0)]
       \/ \E v \in InitialFreqs :
            /\ db = [k \in CounterKeys |-> encodeFrequency(v)]
            /\ okSum = [k \in CounterKeys |-> SumOf(v)]
    /\ tidSeq = NewTokenIDSequence
    /\ sd = Idle
    /\ last = None
    /\ nOps = 0
    /\ firstID = NoMap
    /\ txns = [c \in Clients |-> Closed]
    /\ commitTs = [k \in CounterKeys |-> 0]
    /\ clock = 0
    /\ inp = <<>>
    /\ written = {}

\* Update starts a transaction at the current timestamp and runs the body of
\* IncrementSingleTokenFreq on that snapshot
IncrementSingleBegin(c, tokenID, increment) ==
    /\ txns[c].pc = "idle"
    /\ nOps < MaxCalls
    /\ nOps' = nOps + 1
    /\ LET r == IncrementSingleTokenFreqTx(db, tokenID, increment)
       IN txns' = [txns EXCEPT ![c] =
                     [pc |-> "open", op |-> "IncrementSingleTokenFreq",
                      arg |-> <<tokenID, increment>>, readTs |-> clock,
                      reads |-> {encodeSingleTokenKey(tokenID)},
                      err |-> r.err, writes |-> r.writes,
                      key |-> encodeSingleTokenKey(tokenID), increment |-> increment]]
    /\ last' = None
    /\ UNCHANGED <<db, tidSeq, sd, firstID, commitTs, clock, okSum, inp, written>>

IncrementPairBegin(c, token1ID, token2ID, increment) ==
    /\ txns[c].pc = "idle"
    /\ nOps < MaxCalls
    /\ nOps' = nOps + 1
    /\ LET r == IncrementPairTokenFreqTx(db, token1ID, token2ID, increment)
       IN txns' = [txns EXCEPT ![c] =
                     [pc |-> "open", op |-> "IncrementPairTokenFreq",
                      arg |-> <<token1ID, token2ID, increment>>, readTs |-> clock,
                      reads |-> {encodePairTokenKey(token1ID, token2ID)},
                      err |-> r.err, writes |-> r.writes,
                      key |-> encodePairTokenKey(token1ID, token2ID),
                      increment |-> increment]]
    /\ last' = None
    /\ UNCHANGED <<db, tidSeq, sd, firstID, commitTs, clock, okSum, inp, written>>

\* the store's check at commit: a key read was committed after the start
Conflict(t) == \E k \in t.reads : commitTs[k] > t.readTs

\* what Update returns: the body's error, else the error of Commit
UpdateErr(t) ==
    IF t.err # "nil" THEN t.err
    ELSE IF Conflict(t) THEN "ErrConflict" ELSE "nil"

\* the end of Update: the body's error, or the result of Commit, is returned
UpdateCommit(c) ==
    /\ txns[c].pc = "open"
    /\ LET t == txns[c]
           err == UpdateErr(t)
       IN /\ last' = [op |-> t.op, arg |-> t.arg, ret |-> [err |-> err]]
          /\ IF err = "nil"
               THEN /\ db' = Commit(db, t.writes)
                    /\ clock' = clock + 1
                    /\ commitTs' = [k \in DOMAIN commitTs |->
                                      IF k \in DOMAIN t.writes THEN clock + 1 ELSE commitTs[k]]
                    /\ okSum' = [okSum EXCEPT ![t.key] = SumAdd(okSum[t.key], t.increment)]
               ELSE UNCHANGED <<db, clock, commitTs, okSum>>
    /\ txns' = [txns EXCEPT ![c] = Closed]
    /\ UNCHANGED <<tidSeq, sd, nOps, firstID, inp, written>>

NextInc ==
    \/ \E c \in Clients, i \in Increments : IncrementSingleBegin(c, CounterSingle[1], i)
    \/ \E c \in Clients, i \in Increments :
          IncrementPairBegin(c, CounterPair[1], CounterPair[2], i)
    \/ \E c \in Clients : UpdateCommit(c)

SpecInc == InitInc /\ [][NextInc]_vars

-----------------------------------------------------------------------------
(* The pair scan over stores of arbitrary pair entries *)

MaxScanPairs == 3      \* pair entries in the store

ScanLeftIDs == {1, 256}

ScanRightIDs == {0, 1, 2, 255, 256, 257, 65536}

InitScan ==
    /\ db = EmptyDB
    /\ tidSeq = NewTokenIDSequence
    /\ sd = Idle
    /\ last = None
    /\ nOps = 0
    /\ firstID = NoMap
    /\ txns = NoTxns
    /\ commitTs = NoMap
    /\ clock = 0
    /\ okSum = NoMap
    /\ inp = <<>>
    /\ written = {}

\* CreateTransaction, StorePairTokenFreqTx, Commit
PutPair(token1ID, token2ID, frequency) ==
    /\ Cardinality(written \cup {<<token1ID, token2ID>>}) <= MaxScanPairs
    /\ db' = Commit(db, StorePairTokenFreqTx(EmptyDB, token1ID, token2ID, frequency))
    /\ written' = written \cup {<<token1ID, token2ID>>}
    /\ last' = None
    /\ UNCHANGED <<tidSeq, sd, nOps, firstID, txns, commitTs, clock, okSum, inp>>

\* CreateTransaction, StoreSingleTokenFreqTx, Commit
PutSingle(tokenID, frequency) ==
    /\ db' = Commit(db, StoreSingleTokenFreqTx(EmptyDB, tokenID, frequency))
    /\ last' = None
    /\ UNCHANGED <<tidSeq, sd, nOps, firstID, txns, commitTs, clock, okSum, inp, written>>

\* the iteration of CalculateMeasures over the pairs of one left identifier
PairScanCall(tokenID) ==
    /\ last' = [op |-> "PairScan", arg |-> tokenID, ret |-> PrefixScan(db, PairPrefix(tokenID))]
    /\ UNCHANGED <<db, tidSeq, sd, nOps, firstID, txns, commitTs, clock, okSum, inp, written>>

NextScan ==
    \/ \E l \in ScanLeftIDs, r \in ScanRightIDs : PutPair(l, r, 1)
    \/ \E l \in ScanLeftIDs : PutSingle(l, 1)
    \/ \E l \in ScanLeftIDs : PairScanCall(l)

SpecScan == InitScan /\ [][NextScan]_vars

-----------------------------------------------------------------------------
(* The value codecs applied to sample inputs *)

FreqSamples == {0, 1, 255, 256, 65536, 2147483647, MaxUint32}

DistSamples == {0, 1, 255, 256, 32768, 65535}

PositionSamples == {0 - 16384, 0 - 1, 0, 1, 16384}

InitCodec ==
    /\ inp \in [f : FreqSamples, d : DistSamples, v : PositionSamples]
    /\ db = EmptyDB
    /\ tidSeq = NewTokenIDSequence
    /\ sd = Idle
    /\ last = None
    /\ nOps = 0
    /\ firstID = NoMap
    /\ txns = NoTxns
    /\ commitTs = NoMap
    /\ clock = 0
    /\ okSum = NoMap
    /\ written = {}

ApplyCodecs ==
    /\ last.op = "none"
    /\ last' = [op |-> "codec", arg |-> inp,
                ret |-> [freq |-> decodeFrequency(encodeFrequency(inp.f)),
                         freqDist |-> decodeFrequencyAndDist(encodeFrequencyAndDist(inp.f, inp.d)),
                         panic |-> mutualPositionToUint16Panics(inp.v),
                         position |-> mutualPositionToInt(mutualPositionToUint16(inp.v))]]
    /\ UNCHANGED <<db, tidSeq, sd, nOps, firstID, txns, commitTs, clock, okSum, inp, written>>

NextCodec == ApplyCodecs

SpecCodec == InitCodec /\ [][NextCodec]_vars

-----------------------------------------------------------------------------
(* The variants of a query lemma over stores of arbitrary lemmas *)

MaxPrefixLemmas == 3      \* lemmas in the store

\* "a", "a_x", "a_y", "ab_x", "b"
PrefixLemmas == {<<97>>, <<97, 95, 120>>, <<97, 95, 121>>, <<97, 98, 95, 120>>, <<98>>}

\* "a", "a_", "a_x", "ab"
PrefixQueries == {<<97>>, <<97, 95>>, <<97, 95, 120>>, <<97, 98>>}

InitPrefix ==
    /\ db = EmptyDB
    /\ tidSeq = NewTokenIDSequence
    /\ sd = Idle
    /\ last = None
    /\ nOps = 0
    /\ firstID = NoMap
    /\ txns = NoTxns
    /\ commitTs = NoMap
    /\ clock = 0
    /\ okSum = NoMap
    /\ inp = <<>>
    /\ written = {}

\* the Update of StoreData's first loop for a lemma not stored before
PutLemma(lemma) ==
    /\ lemma \notin DOMAIN tidSeq.cache
    /\ Cardinality(DOMAIN tidSeq.cache) < MaxPrefixLemmas
    /\ tidSeq' = next(tidSeq, lemma)
    /\ db' = Commit(db, StoreLemmaTx(EmptyDB, lemma, tidSeq'.value))
    /\ last' = None
    /\ UNCHANGED <<sd, nOps, firstID, txns, commitTs, clock, okSum, inp, written>>

GetLemmaIDsByPrefixCall(lemmaPrefix) ==
    /\ last' = [op |-> "GetLemmaIDsByPrefix", arg |-> lemmaPrefix,
                ret |-> GetLemmaIDsByPrefix(db, lemmaPrefix)]
    /\ UNCHANGED <<db, tidSeq, sd, nOps, firstID, txns, commitTs, clock, okSum, inp, written>>

NextPrefix ==
    \/ \E l \in PrefixLemmas : PutLemma(l)
    \/ \E q \in PrefixQueries : GetLemmaIDsByPrefixCall(q)

SpecPrefix == InitPrefix /\ [][NextPrefix]_vars

-----------------------------------------------------------------------------
(* Properties *)

Range(f) == {f[i] : i \in DOMAIN f}

Min(a, b) == IF a <= b THEN a ELSE b

\* the forward (lemma -> identifier) entries of the store
ForwardKeys == {k \in DOMAIN db : k[1] \in {LemmaToIDPrefix, PoSLemmaToIDPrefix}}

AllReturned == \A c \in Clients : txns[c].pc = "idle"

StoredCounter(k) == IF Has(db, k) THEN decodeFrequency(db[k]) ELSE 0

(* C1 (SpecInc): once every Increment call has returned, each counter holds *)
(* its initial value plus the sum of the increments of exactly the calls    *)
(* that returned nil, in 32-bit arithmetic (okSum.low; it is the exact sum  *)
(* while okSum.carry = 0); a counter nobody committed to is as it was.      *)
C1_IncrementsSumUp ==
    AllReturned =>
        \A k \in CounterKeys :
            /\ StoredCounter(k) = okSum[k].low
            /\ (~Has(db, k) => okSum[k].n = 0)

\* two increments of one counter committed, a third was refused as a conflict
C1_Witness ==
    /\ AllReturned
    /\ last.op \in {"IncrementSingleTokenFreq", "IncrementPairTokenFreq"}
    /\ last.ret.err = "ErrConflict"
    /\ \E k \in CounterKeys : okSum[k].n >= 2 /\ okSum[k].carry = 0 /\ Has(db, k)

\* the key under which StoreData files a pair of lemmas
PairKeyOf(p) == encodePairTokenKey(recall(tidSeq, p[1]), recall(tidSeq, p[2]))

(* C2 (Spec): after StoreData on an empty store with a fresh registry       *)
(* returned nil, every pair of pairFreqs below minPairFreq has no entry,    *)
(* every other pair has an entry of its own holding exactly its frequency.  *)
C2_BulkLoadThreshold ==
    (last.op = "StoreData" /\ last.ret.err = "nil" /\ last.arg.clean) =>
        LET pf == last.arg.pairFreqs
        IN /\ \A p \in DOMAIN pf :
                IF pf[p] < last.arg.minPairFreq
                    THEN ~Has(db, PairKeyOf(p))
                    ELSE /\ Has(db, PairKeyOf(p))
                         /\ pf[p] >= 0
                         /\ db[PairKeyOf(p)] = encodeFrequency(pf[p])
           /\ \A p, q \in {x \in DOMAIN pf : pf[x] >= last.arg.minPairFreq} :
                 p # q => PairKeyOf(p) # PairKeyOf(q)

(* C3 (Spec): the persisted lemma -> identifier mapping is injective, every *)
(* persisted identifier is nonzero, and a lemma keeps the identifier first  *)
(* persisted for it (since the last Flush).                                 *)
C3_MappingInjectiveStable ==
    /\ \A k1, k2 \in ForwardKeys : k1 # k2 => db[k1] # db[k2]
    /\ \A k \in ForwardKeys : Uint32(db[k]) # 0
    /\ \A l \in DOMAIN firstID :
          /\ Has(db, encodeLemmaKey(l))
          /\ Uint32(db[encodeLemmaKey(l)]) = firstID[l]

\* the pair keys the scans of a query visit
VisitedPairKeys(lemma) ==
    UNION {Range(PrefixScan(db, PairPrefix(v.TokenID))) :
             v \in Range(GetLemmaIDsByPrefix(db, lemma))}

(* C4 (Spec): the pair scan of CalculateMeasures decodes every pair value   *)
(* the write paths stored without failing, and obtains the frequency that   *)
(* was written.                                                             *)
C4_OnePairValueLayout ==
    last.op = "CalculateMeasures" =>
        /\ last.ret.kind # "panic"
        /\ last.ret.kind = "ok" =>
             \A k \in VisitedPairKeys(last.arg.lemma) :
                /\ ~decodeFrequencyAndDistPanics(db[k])
                /\ decodeFrequencyAndDist(db[k])[1] = decodeFrequency(db[k])

\* every matched variant has its single frequency
TargetsPresent(lemma) ==
    \A v \in Range(GetLemmaIDsByPrefix(db, lemma)) :
        getSingleTokenFreq(db, v.TokenID).err = "nil"

PartnerPresent(k) ==
    /\ getSingleTokenFreqCopy(db, Uint32(SubSeq(k, 6, 9))).err = "nil"
    /\ getLemmaByIDTxn(db, Uint32(SubSeq(k, 6, 9))).err = "nil"

Proj(c) ==
    [RawLemma |-> c.RawLemma, RawCollocate |-> c.RawCollocate,
     LogDice |-> c.LogDice, TScore |-> c.TScore]

\* the collocations of the surviving pairs, from the frequencies as written
Survivors(lemma, corpusSize) ==
    UNION {{[RawLemma |-> v.Value,
             RawCollocate |-> getLemmaByIDTxn(db, Uint32(SubSeq(k, 6, 9))).lemma,
             LogDice |-> LogDiceOf(decodeFrequency(db[k]),
                                   getSingleTokenFreq(db, v.TokenID).freq,
                                   getSingleTokenFreqCopy(db, Uint32(SubSeq(k, 6, 9))).freq),
             TScore |-> TScoreOf(decodeFrequency(db[k]),
                                 getSingleTokenFreq(db, v.TokenID).freq,
                                 getSingleTokenFreqCopy(db, Uint32(SubSeq(k, 6, 9))).freq,
                                 corpusSize)] :
              k \in {x \in Range(PrefixScan(db, PairPrefix(v.TokenID))) : PartnerPresent(x)}} :
           v \in Range(GetLemmaIDsByPrefix(db, lemma))}

(* C5 (Spec): CalculateMeasures with cap L returns min(L, n) collocations   *)
(* of the n surviving pairs, in non-increasing order of the sort measure,   *)
(* none of them below a surviving collocation that was left out.            *)
C5_RankedAndCapped ==
    (last.op = "CalculateMeasures" /\ TargetsPresent(last.arg.lemma)) =>
        LET surv == Survivors(last.arg.lemma, last.arg.corpusSize)
            res  == last.ret.results
            m    == last.arg.sortBy
        IN /\ last.ret.kind = "ok"
           /\ Len(res) = Min(last.arg.limit, Cardinality(surv))
           /\ \A i \in 1..Len(res) : Proj(res[i]) \in surv
           /\ \A i, j \in 1..Len(res) : i < j => ~Before(res[j], res[i], m)
           /\ \A c \in surv \ {Proj(res[i]) : i \in 1..Len(res)} :
                 \A i \in 1..Len(res) : ~Before(c, res[i], m)

(* C6 (Spec): a scanned pair whose partner has no single frequency or no    *)
(* reverse entry is left out and the query goes on: it returns without an   *)
(* error, and with a cap that does not cut them, every surviving pair.      *)
C6_MissingPartnerSkipped ==
    (/\ last.op = "CalculateMeasures"
     /\ TargetsPresent(last.arg.lemma)
     /\ \E k \in VisitedPairKeys(last.arg.lemma) : ~PartnerPresent(k)) =>
        LET surv == Survivors(last.arg.lemma, last.arg.corpusSize)
            res  == last.ret.results
        IN /\ last.ret.kind = "ok"
           /\ \A i \in 1..Len(res) : Proj(res[i]) \in surv
           /\ last.arg.limit >= Cardinality(surv) =>
                 \A c \in surv : \E i \in 1..Len(res) : Proj(res[i]) = c

\* the right identifiers of the keys a scan visited, as the loop extracts them
Rights(keys) == [i \in 1..Len(keys) |-> Uint32(SubSeq(keys[i], 6, 9))]

\* the scan visited the pairs written with the left identifier, each once
ScanExact(tokenID, keys) ==
    /\ Range(Rights(keys)) = {q[2] : q \in {w \in written : w[1] = tokenID}}
    /\ Len(keys) = Cardinality({w \in written : w[1] = tokenID})

C8_ValueCodecsRoundTrip ==
    last.op = "codec" =>
        /\ last.ret.freq = last.arg.f
        /\ last.ret.freqDist = <<last.arg.f, last.arg.d>>
        /\ (last.arg.v >= 0 - 16384 /\ last.arg.v <= 16384) =>
              ~last.ret.panic /\ last.ret.position = last.arg.v

(* C9 (Spec): GetLemmaID of a lemma without a forward entry returns the     *)
(* identifier 0 and no error; its error is never key-not-found.             *)
C9_MissIsZeroWithoutError ==
    last.op = "GetLemmaID" =>
        /\ ~Has(db, encodeLemmaKey(last.arg)) =>
              last.ret.tokenID = 0 /\ last.ret.err = "nil"
        /\ last.ret.err # "ErrKeyNotFound"

(* C10 (Spec): in every reachable state, between the transactions of a      *)
(* running StoreData and after one that stopped on an error included, the   *)
(* identifier of every forward entry has its reverse entry.                 *)
C10_ForwardHasReverse ==
    \A k \in ForwardKeys : Has(db, encodeIDToLemmaKey(Uint32(db[k])))

\* a StoreData call stopped on an error after it had stored a lemma
C10_Witness ==
    /\ sd.pc = "failed"
    /\ ForwardKeys # {}

\* the lemmas that have a forward entry
StoredLemmas == {Tail(k) : k \in ForwardKeys}

(* C11 (SpecPrefix): GetLemmaIDsByPrefix(q) returns exactly the stored      *)
(* lemmas that have q as a prefix, each once and with its stored            *)
(* identifier; a stored lemma equal to q is among them.                     *)
C11_PrefixVariantsExact ==
    last.op = "GetLemmaIDsByPrefix" =>
        LET matches == {l \in StoredLemmas : HasPrefix(l, last.arg)}
        IN /\ Len(last.ret) = Cardinality(matches)
           /\ {<<r.Value, r.TokenID>> : r \in Range(last.ret)} =
                 {<<l, Uint32(db[encodeLemmaKey(l)])>> : l \in matches}

(* C12 (Spec): a query that visits a pair entry whose stored frequency is 0 *)
(* ends without a failure (the entry is excluded, or an error is returned), *)
(* and no collocation of a result was computed from a frequency of 0 or     *)
(* carries a non-finite measure.                                            *)
C12_ZeroPairFrequencyGuarded ==
    (/\ last.op = "CalculateMeasures"
     /\ TargetsPresent(last.arg.lemma)
     /\ \E k \in VisitedPairKeys(last.arg.lemma) : decodeFrequency(db[k]) = 0) =>
        /\ last.ret.kind \in {"ok", "error"}
        /\ \A i \in 1..Len(last.ret.results) :
              /\ last.ret.results[i].pairFreq # 0
              /\ last.ret.results[i].LogDice.kind = "fin"
              /\ last.ret.results[i].TScore.kind = "fin"

=============================================================================
